---- MODULE Spec2Model ----
\* A model of the ao-rs wrapper (src/src/lib.rs) around the native libao
\* library: the Ao context, Driver, Device, Settings and Format types, and
\* the native calls each of their operations makes.
EXTENDS Integers, Sequences, FiniteSets, TLC

\* ---------------------------------------------------------------- bounds
MaxAo == 1          \* Ao values ever created
MaxDevices == 2     \* Device::new calls that succeed
MaxSettings == 1    \* Settings values ever created
MaxAppend == 2      \* append calls that return, per Settings value

AoIds == 1..MaxAo
DevIds == 1..MaxDevices
SetIds == 1..MaxSettings
\* addresses native open and native append return, besides null
Handles == {1, 2}
\* ids the native driver lookups return
NativeIds == {-1, 0, 1}
DriverIds == {id \in NativeIds : id >= 0}

\* ptr::null() / ptr::null_mut()
Null == 0

\* Option<T>
None == {}
Some(x) == {x}

\* ------------------------------------------------------------ u32, c_int
\* 2^31 - 1; a u32 is kept as its top bit and its low 31 bits, so that the
\* whole u32 range is representable.
I32Max == 2147483647

U32(n) == [b31 |-> FALSE, low |-> n]
U32High(n) == [b31 |-> TRUE, low |-> n]

\* `x as c_int` for a u32 x: the same 32 bits read as two's complement.
AsCInt(x) == IF x.b31 THEN (x.low - I32Max) - 1 ELSE x.low

\* ---------------------------------------------------------------- Format
\* `ByteFormat as c_int`: the enum discriminants.
\* the discriminants the enum would get without `= 1`, `= 2`, `= 4`
ByteFormatSequential(bf) ==
    CASE bf = "Little" -> 0
      [] bf = "Big"    -> 1
      [] bf = "Native" -> 2

ByteFormatAsCInt(bf) ==
    CASE bf = "Little" -> 1
      [] bf = "Big"    -> 2
      [] bf = "Native" -> 4

DefaultFormat ==
    [bits |-> U32(16), rate |-> U32(44100), channels |-> U32(2),
     byte_format |-> "Little", channel_format |-> None]

to_ao_format(f) ==
    [bits |-> AsCInt(f.bits),
     rate |-> AsCInt(f.rate),
     channels |-> AsCInt(f.channels),
     byte_format |-> ByteFormatAsCInt(f.byte_format),
     matrix |-> Null]

\* u32 values the Format fields are drawn from; U32High(0) is 2^31 and
\* U32High(I32Max) is 2^32 - 1.
BitsSamples == {U32(8), U32(16), U32High(0), U32High(I32Max)}
RateSamples == {U32(0), U32(44100), U32(I32Max), U32High(0)}
ChannelsSamples == {U32(1), U32(2), U32High(I32Max)}
ByteFormats == {"Little", "Big", "Native"}
ChannelFormats == {None, Some("L,R")}
AllFormats ==
    [bits : BitsSamples, rate : RateSamples, channels : ChannelsSamples,
     byte_format : ByteFormats, channel_format : ChannelFormats]
\* the formats Device::new is called with
OpenFormats ==
    {DefaultFormat,
     [bits |-> U32(8), rate |-> U32High(0), channels |-> U32(1),
      byte_format |-> "Native", channel_format |-> Some("L,R")]}

VARIABLES
    initialized,   \* native: ao_initialize has run and ao_shutdown has not since
    nativeOpen,    \* native: device handles opened and not closed
    ao,            \* the Ao values
    drivers,       \* the Driver values
    devices,       \* the Device values
    settings,      \* the Settings values
    format,        \* the Format last converted
    ao_format,     \* the AoFormat it was converted to (None before any)
    op,            \* the last wrapper operation and its outcome
    calls          \* the native calls it made, in order

vars == <<initialized, nativeOpen, ao, drivers, devices, settings,
          format, ao_format, op, calls>>

\* ------------------------------------------------------------ native calls
\* One native call: function, pointer argument, c_int argument, u32
\* argument (ao_play's num_bytes; zero for the other functions), returned
\* value, and whether the subsystem was initialized when it was made.
Call(fn, ptr, n, ret, live) ==
    [fn |-> fn, ptr |-> ptr, n |-> n, num_bytes |-> U32(0), ret |-> ret,
     live |-> live]

RECURSIVE Count(_, _)
Count(cs, fn) ==
    IF cs = <<>> THEN 0
    ELSE (IF Head(cs).fn = fn THEN 1 ELSE 0) + Count(Tail(cs), fn)

Balance(cs) == Count(cs, "ao_initialize") - Count(cs, "ao_shutdown")

Op(name, self, arg, ok, val) ==
    [name |-> name, self |-> self, arg |-> arg, ok |-> ok, val |-> val]

\* CString::new fails on any zero byte; .unwrap() then panics.
HasZeroByte(s) == \E i \in DOMAIN s : s[i] = 0
\* strings as byte sequences: "", "p", "p\0"
Strings == {<<>>, <<112>>, <<112, 0>>}
\* (key, value) pairs append is called with
KeyValues == {<<<<112>>, <<>>>>, <<<<112, 0>>, <<112>>>>, <<<<112>>, <<112, 0>>>>}

\* lowest slot not yet used
FreeSlot(f, ids) ==
    IF \E i \in ids : f[i].st = "none"
    THEN {CHOOSE i \in ids : f[i].st = "none" /\ \A j \in ids : f[j].st = "none" => i <= j}
    ELSE {}

\* balance: native initialize calls minus native shutdown calls made by the
\* operations on this Ao value
NoAo == [st |-> "none", balance |-> 0]
NoDevice == [st |-> "none", device |-> Null, closes |-> 0]
NoSettings == [st |-> "none", options |-> Null, appends |-> 0, frees |-> 0]

Init ==
    /\ initialized = FALSE
    /\ nativeOpen = {}
    /\ ao = [a \in AoIds |-> NoAo]
    /\ drivers = {}
    /\ devices = [d \in DevIds |-> NoDevice]
    /\ settings = [s \in SetIds |-> NoSettings]
    /\ format = DefaultFormat
    /\ ao_format = None
    /\ op = Op("start", 0, 0, TRUE, 0)
    /\ calls = <<>>

\* -------------------------------------------------------------------- Ao
\* the subsystem after a sequence of native calls
RECURSIVE InitializedAfter(_, _)
InitializedAfter(live, cs) ==
    IF cs = <<>> THEN live
    ELSE InitializedAfter(
             CASE Head(cs).fn = "ao_initialize" -> TRUE
               [] Head(cs).fn = "ao_shutdown" -> FALSE
               [] OTHER -> live,
             Tail(cs))

AoNewCalls(live) == <<Call("ao_initialize", Null, 0, 0, live)>>

AoNew ==
    \E a \in FreeSlot(ao, AoIds) :
        /\ calls' = AoNewCalls(initialized)
        /\ initialized' = InitializedAfter(initialized, calls')
        /\ ao' = [ao EXCEPT ![a] = [st |-> "live", balance |-> Balance(calls')]]
        /\ op' = Op("Ao::new", a, 0, TRUE, 0)
        /\ UNCHANGED <<nativeOpen, drivers, devices, settings, format, ao_format>>

\* #[derive(Default)] on the unit struct: the value is built with no native call.
AoDefault ==
    \E a \in FreeSlot(ao, AoIds) :
        /\ calls' = <<>>
        /\ ao' = [ao EXCEPT ![a] = [st |-> "live", balance |-> 0]]
        /\ op' = Op("Ao::default", a, 0, TRUE, 0)
        /\ UNCHANGED <<initialized, nativeOpen, drivers, devices, settings,
                       format, ao_format>>

\* the two native calls in the opposite order
ReloadCallsSwapped(live) ==
    <<Call("ao_initialize", Null, 0, 0, live),
      Call("ao_shutdown", Null, 0, 0, TRUE)>>

\* native shutdown, then native initialize
ReloadCalls(live) ==
    <<Call("ao_shutdown", Null, 0, 0, live),
      Call("ao_initialize", Null, 0, 0, FALSE)>>

AoReload(a) ==
    /\ ao[a].st = "live"
    /\ calls' = ReloadCalls(initialized)
    /\ initialized' = InitializedAfter(initialized, calls')
    /\ ao' = [ao EXCEPT ![a].balance = @ + Balance(calls')]
    /\ op' = Op("Ao::reload", a, 0, TRUE, 0)
    /\ UNCHANGED <<nativeOpen, drivers, devices, settings, format, ao_format>>

AoDropCalls(live) == <<Call("ao_shutdown", Null, 0, 0, live)>>

AoDrop(a) ==
    /\ ao[a].st = "live"
    /\ calls' = AoDropCalls(initialized)
    /\ initialized' = InitializedAfter(initialized, calls')
    /\ ao' = [ao EXCEPT ![a].st = "dropped",
                        ![a].balance = @ + Balance(calls')]
    /\ op' = Op("Ao::drop", a, 0, TRUE, 0)
    /\ UNCHANGED <<nativeOpen, drivers, devices, settings, format, ao_format>>

\* ---------------------------------------------------------------- Driver
Driver(id) == [driver_id |-> id]
driver_id(driver) == driver.driver_id

\* the check off by one: -1 passes
DriverOkFromMinusOne(id) == id >= -1

\* `if driver_id >= 0`
DriverOk(id) == id >= 0

\* the Result of a lookup whose native call returned ret
DriverResult(name, ret) ==
    /\ IF DriverOk(ret)
       THEN /\ drivers' = drivers \cup {Driver(ret)}
            /\ op' = Op(name, 0, 0, TRUE, driver_id(Driver(ret)))
       ELSE /\ drivers' = drivers
            /\ op' = Op(name, 0, 0, FALSE, 0)
    /\ UNCHANGED <<initialized, nativeOpen, ao, devices, settings,
                   format, ao_format>>

DriverNew(ret) ==
    /\ calls' = <<Call("ao_default_driver_id", Null, 0, ret, initialized)>>
    /\ DriverResult("Driver::new", ret)

DriverWithName(short_name, ret) ==
    IF HasZeroByte(short_name)
    THEN \* CString::new(..).unwrap() panics before any native call
         /\ calls' = <<>>
         /\ op' = Op("Driver::with_name panic", 0, 0, FALSE, 0)
         /\ UNCHANGED <<initialized, nativeOpen, ao, drivers, devices,
                        settings, format, ao_format>>
    ELSE /\ calls' = <<Call("ao_driver_id", Null, Len(short_name), ret, initialized)>>
         /\ DriverResult("Driver::with_name", ret)

\* -------------------------------------------------------------- Settings
SettingsNew ==
    \E s \in FreeSlot(settings, SetIds) :
        /\ settings' = [settings EXCEPT ![s] = [st |-> "live", options |-> Null,
                                                appends |-> 0, frees |-> 0]]
        /\ calls' = <<>>
        /\ op' = Op("Settings::new", s, 0, TRUE, 0)
        /\ UNCHANGED <<initialized, nativeOpen, ao, drivers, devices,
                       format, ao_format>>

\* Native ao_append_option(&head, key, value): links a node it allocates at
\* node; the head is written only when the list was empty.
ao_append_option(head, node) == IF head = Null THEN node ELSE head

SettingsAppend(s, key, value, node) ==
    /\ settings[s].st = "live"
    /\ settings[s].appends < MaxAppend
    /\ IF HasZeroByte(key) \/ HasZeroByte(value)
       THEN /\ calls' = <<>>
            /\ settings' = settings
            /\ op' = Op("Settings::append panic", s, 0, FALSE, 0)
       ELSE /\ calls' = <<Call("ao_append_option", settings[s].options, 0, 0, initialized)>>
            /\ settings' = [settings EXCEPT
                   ![s].options = ao_append_option(@, node),
                   ![s].appends = @ + 1]
            /\ op' = Op("Settings::append", s, 0, TRUE, 0)
    /\ UNCHANGED <<initialized, nativeOpen, ao, drivers, devices, format, ao_format>>

as_ao_option(s) == s.options

\* free skipped for an empty list
SettingsDropCallsUnlessNull(s, live) ==
    IF s.options # Null THEN <<Call("ao_free_options", s.options, 0, 0, live)>> ELSE <<>>

SettingsDropCalls(s, live) == <<Call("ao_free_options", s.options, 0, 0, live)>>

SettingsDrop(s) ==
    /\ settings[s].st = "live"
    /\ calls' = SettingsDropCalls(settings[s], initialized)
    /\ settings' = [settings EXCEPT
           ![s] = [st |-> "dropped", options |-> Null, appends |-> 0,
                   frees |-> @.frees + Count(calls', "ao_free_options")]]
    /\ op' = Op("Settings::drop", s, 0, TRUE, 0)
    /\ UNCHANGED <<initialized, nativeOpen, ao, drivers, devices, format, ao_format>>

\* ---------------------------------------------------------------- Device
\* `match settings { Some(settings) => settings.as_ao_option(), None => ptr::null() }`
\* with s = 0 for None and a Settings slot otherwise
OptionsArgNull(s) == Null

OptionsArg(s) == IF s = 0 THEN Null ELSE as_ao_option(settings[s])

\* the pointer wrapped without the null check
NonNullNewUnchecked(p) == TRUE

\* NonNull::new(p).is_some()
NonNullNew(p) == p # Null

DeviceNew(driver, f, s, ret) ==
    /\ driver \in drivers
    /\ ret \notin nativeOpen    \* native open returns null or a handle not in use
    /\ s # 0 => settings[s].st = "live"
    /\ format' = f
    /\ ao_format' = Some(to_ao_format(f))
    /\ calls' = <<Call("ao_open_live", OptionsArg(s), driver_id(driver), ret, initialized)>>
    /\ nativeOpen' = IF ret = Null THEN nativeOpen ELSE nativeOpen \cup {ret}
    /\ IF NonNullNew(ret)
       THEN \E d \in FreeSlot(devices, DevIds) :
               /\ devices' = [devices EXCEPT ![d] = [st |-> "live", device |-> ret,
                                                     closes |-> 0]]
               /\ op' = Op("Device::new", d, s, TRUE, ret)
       ELSE /\ devices' = devices
            /\ op' = Op("Device::new", 0, s, FALSE, 0)
    /\ UNCHANGED <<initialized, ao, drivers, settings>>

\* A usize (64 bits) is kept as its upper 32 bits and its lower 32 bits,
\* the lower ones as a u32.
USize(hi, lo) == [hi |-> hi, lo |-> lo]
\* `x as u32` for a usize x: the upper 32 bits are dropped.
AsU32(x) == x.lo

\* buffer lengths play is called with: 0, 4, 2^31, 2^32, 2^32 + 4
BufLens ==
    {USize(0, U32(0)), USize(0, U32(4)), USize(0, U32High(0)),
     USize(1, U32(0)), USize(1, U32(4))}

DevicePlay(d, len) ==
    /\ devices[d].st = "live"
    /\ calls' = <<[Call("ao_play", devices[d].device, 0, 0, initialized)
                     EXCEPT !.num_bytes = AsU32(len)]>>
    \* arg: the upper 32 bits of buffer.len(), which the cast drops
    /\ op' = Op("Device::play", d, len.hi, TRUE, 0)
    /\ UNCHANGED <<initialized, nativeOpen, ao, drivers, devices, settings,
                   format, ao_format>>

\* the null check inverted
DeviceDropCallsIfNull(dev, live) ==
    IF dev.device = Null THEN <<Call("ao_close", dev.device, 0, 0, live)>> ELSE <<>>

\* `if !self.device.as_ptr().is_null() { ffi::ao_close(..) }`
DeviceDropCalls(dev, live) ==
    IF dev.device # Null THEN <<Call("ao_close", dev.device, 0, 0, live)>> ELSE <<>>

\* native: the handles open after a sequence of native calls
RECURSIVE OpenAfter(_, _)
OpenAfter(open, cs) ==
    IF cs = <<>> THEN open
    ELSE OpenAfter(IF Head(cs).fn = "ao_close" THEN open \ {Head(cs).ptr} ELSE open,
                   Tail(cs))

DeviceDrop(d) ==
    /\ devices[d].st = "live"
    /\ calls' = DeviceDropCalls(devices[d], initialized)
    /\ nativeOpen' = OpenAfter(nativeOpen, calls')
    /\ devices' = [devices EXCEPT
           ![d] = [st |-> "dropped", device |-> Null,
                   closes |-> @.closes + Count(calls', "ao_close")]]
    /\ op' = Op("Device::drop", d, 0, TRUE, 0)
    /\ UNCHANGED <<initialized, ao, drivers, settings, format, ao_format>>

\* ---------------------------------------------------------- Format values
\* Format::new() / Format::default()
FormatNew ==
    /\ format' = DefaultFormat
    /\ ao_format' = None
    /\ calls' = <<>>
    /\ op' = Op("Format::new", 0, 0, TRUE, 0)
    /\ UNCHANGED <<initialized, nativeOpen, ao, drivers, devices, settings>>

\* a Format built field by field (all fields are pub)
FormatLiteral(f) ==
    /\ format' = f
    /\ ao_format' = None
    /\ calls' = <<>>
    /\ op' = Op("Format literal", 0, 0, TRUE, 0)
    /\ UNCHANGED <<initialized, nativeOpen, ao, drivers, devices, settings>>

FormatToAoFormat ==
    /\ ao_format' = Some(to_ao_format(format))
    /\ calls' = <<>>
    /\ op' = Op("Format::to_ao_format", 0, 0, TRUE, 0)
    /\ UNCHANGED <<initialized, nativeOpen, ao, drivers, devices, settings, format>>

\* ------------------------------------------------------------------ Next
Next ==
    \/ AoNew
    \/ AoDefault
    \/ \E a \in AoIds : AoReload(a)
    \/ \E a \in AoIds : AoDrop(a)
    \/ \E ret \in NativeIds : DriverNew(ret)
    \/ \E name \in Strings, ret \in NativeIds : DriverWithName(name, ret)
    \/ SettingsNew
    \/ \E s \in SetIds, kv \in KeyValues, node \in Handles :
           SettingsAppend(s, kv[1], kv[2], node)
    \/ \E s \in SetIds : SettingsDrop(s)
    \/ \E id \in DriverIds, f \in OpenFormats, s \in {0} \cup SetIds,
          ret \in {Null} \cup Handles :
           DeviceNew(Driver(id), f, s, ret)
    \/ \E d \in DevIds, len \in BufLens : DevicePlay(d, len)
    \/ \E d \in DevIds : DeviceDrop(d)
    \/ FormatNew
    \/ \E f \in OpenFormats : FormatLiteral(f)
    \/ FormatToAoFormat

Spec == Init /\ [][Next]_vars

\* The operations grouped by the values they read and write. Driver, Device
\* and Settings operations neither read nor write an Ao value, the Ao
\* operations touch nothing else, and the Format operations make no native
\* call, so each group is also explored on its own, which lets its bounds be
\* raised and the Format fields range over more values.
AoOps ==
    \/ AoNew
    \/ AoDefault
    \/ \E a \in AoIds : AoReload(a)
    \/ \E a \in AoIds : AoDrop(a)

DriverOps ==
    \/ \E ret \in NativeIds : DriverNew(ret)
    \/ \E name \in Strings, ret \in NativeIds : DriverWithName(name, ret)

SettingsOps ==
    \/ SettingsNew
    \/ \E s \in SetIds, kv \in KeyValues, node \in Handles :
           SettingsAppend(s, kv[1], kv[2], node)
    \/ \E s \in SetIds : SettingsDrop(s)

DeviceOps ==
    \/ \E id \in DriverIds, f \in OpenFormats, s \in {0} \cup SetIds,
          ret \in {Null} \cup Handles :
           DeviceNew(Driver(id), f, s, ret)
    \/ \E d \in DevIds, len \in BufLens : DevicePlay(d, len)
    \/ \E d \in DevIds : DeviceDrop(d)

NextContext == AoOps \/ DriverOps
SpecContext == Init /\ [][NextContext]_vars

NextDevice == DriverOps \/ SettingsOps \/ DeviceOps
SpecDevice == Init /\ [][NextDevice]_vars

NextFormat ==
    \/ FormatNew
    \/ \E f \in AllFormats : FormatLiteral(f)
    \/ FormatToAoFormat
SpecFormat == Init /\ [][NextFormat]_vars

\* ================================================================ claims
Fns(cs) == [i \in DOMAIN cs |-> cs[i].fn]

RECURSIVE SumBalance(_)
SumBalance(n) == IF n = 0 THEN 0 ELSE ao[n].balance + SumBalance(n - 1)
\* native initialize calls minus native shutdown calls, over all Ao values
NativeBalance == SumBalance(MaxAo)

\* C1: every native close-device call made by dropping a Device is made
\* while the native subsystem is initialized; no Device is closed after the
\* shutdown that dropping the Ao triggers.
C1_ReleaseOrder ==
    \A i \in DOMAIN calls : calls[i].fn = "ao_close" => calls[i].live

\* C2: every native driver lookup, device open and play call is made while
\* the native subsystem is initialized.
C2_InitializedBeforeUse ==
    \A i \in DOMAIN calls :
        calls[i].fn \in {"ao_default_driver_id", "ao_driver_id", "ao_open_live", "ao_play"}
            => calls[i].live

\* C10: native shutdown calls never outnumber native initialize calls, and
\* dropping an Ao value issues exactly one shutdown, which matches an
\* initialize issued for that value.
C10_InitShutdownBalance ==
    /\ NativeBalance >= 0
    /\ \A a \in AoIds : ao[a].st = "dropped" => ao[a].balance = 0
    /\ op.name = "Ao::drop" => Fns(calls) = <<"ao_shutdown">>

\* C3: a driver lookup whose native call returns a negative id returns an
\* error and creates no Driver; every Driver wraps an id >= 0; driver_id()
\* of a returned Driver is the id the native lookup returned.
C3_Lookup == op.name \in {"Driver::new", "Driver::with_name"}
C3_Inv ==
    /\ \A d \in drivers : driver_id(d) >= 0
    /\ C3_Lookup =>
         /\ Len(calls) = 1
         /\ calls[1].fn \in {"ao_default_driver_id", "ao_driver_id"}
         /\ calls[1].ret < 0 => ~op.ok
         /\ op.ok => op.val = calls[1].ret /\ Driver(calls[1].ret) \in drivers
C3_Step ==
    (op'.name \in {"Driver::new", "Driver::with_name"} /\ calls'[1].ret < 0)
        => drivers' = drivers
C3_DriverLookupChecked == []C3_Inv /\ [][C3_Step]_vars
C3_Witness ==
    /\ op.name = "Driver::with_name" /\ ~op.ok /\ calls[1].ret < 0
    /\ \E d \in drivers : driver_id(d) = 0

\* C8: Ao::reload makes exactly one native shutdown and then exactly one
\* native initialize and nothing else; it leaves the subsystem initialized
\* and every wrapper value as it was.
C8_Inv ==
    op.name = "Ao::reload" =>
        /\ Fns(calls) = <<"ao_shutdown", "ao_initialize">>
        /\ initialized
        /\ ao[op.self].st = "live"
C8_Step ==
    op'.name = "Ao::reload" =>
        /\ \A a \in AoIds : ao'[a].st = ao[a].st
        /\ UNCHANGED <<nativeOpen, drivers, devices, settings, format, ao_format>>
C8_ReloadShutdownThenInitialize == []C8_Inv /\ [][C8_Step]_vars
C8_Witness ==
    /\ op.name = "Ao::reload"
    /\ calls[1].live
    /\ drivers # {}

\* C4: a Device::new whose native open returns null returns an error,
\* creates no Device and makes no native close call; the open native
\* devices are those open before the call.
C4_Inv ==
    /\ \A i \in DOMAIN calls : calls[i].fn = "ao_close" => calls[i].ptr # Null
    /\ \A d \in DevIds : devices[d].st = "live" => devices[d].device # Null
C4_Step ==
    (op'.name = "Device::new" /\ calls'[1].ret = Null) =>
        /\ ~op'.ok
        /\ Fns(calls') = <<"ao_open_live">>
        /\ devices' = devices
        /\ nativeOpen' = nativeOpen
C4_FailedOpenLeavesNothing == []C4_Inv /\ [][C4_Step]_vars
C4_Witness ==
    /\ op.name = "Device::new" /\ ~op.ok /\ calls[1].ret = Null
    /\ nativeOpen # {}

\* C5: a Device that was opened is closed exactly once, when it is dropped,
\* on the handle it holds, which is open and not null at that moment; play
\* closes nothing; the handle of a live Device is never null.
C5_Inv ==
    \A d \in DevIds :
        /\ devices[d].st = "live" =>
              /\ devices[d].device # Null
              /\ devices[d].device \in nativeOpen
              /\ devices[d].closes = 0
        /\ devices[d].st = "dropped" => devices[d].closes = 1
C5_Step ==
    /\ \A i \in DOMAIN calls' :
          calls'[i].fn = "ao_close" =>
              /\ op'.name = "Device::drop"
              /\ calls'[i].ptr # Null
              /\ calls'[i].ptr \in nativeOpen
              /\ calls'[i].ptr = devices[op'.self].device
    /\ op'.name = "Device::drop" => Fns(calls') = <<"ao_close">>
C5_ClosedExactlyOnce == []C5_Inv /\ [][C5_Step]_vars
\* a handle closed, handed out again by native open, and closed again
C5_Witness ==
    /\ op.name = "Device::drop" /\ op.self = 2
    /\ devices[1].st = "dropped"
    /\ calls[1].ptr = 1
    /\ nativeOpen = {}

\* C6: dropping a Settings calls native free-options exactly once, on its
\* list head, whatever the number of appends; Device::new neither frees nor
\* changes the list it borrows.
C6_Inv ==
    \A s \in SetIds :
        /\ settings[s].st = "live" => settings[s].frees = 0
        /\ settings[s].st = "dropped" => settings[s].frees = 1
C6_Step ==
    /\ op'.name = "Settings::drop" =>
          /\ Fns(calls') = <<"ao_free_options">>
          /\ calls'[1].ptr = settings[op'.self].options
    /\ op'.name # "Settings::drop" => Count(calls', "ao_free_options") = 0
    /\ op'.name = "Device::new" =>
          /\ settings' = settings
          /\ Count(calls', "ao_append_option") = 0
C6_FreedExactlyOnce == []C6_Inv /\ [][C6_Step]_vars
C6_Witness ==
    /\ op.name = "Settings::drop" /\ calls[1].ptr # Null
    /\ \E d \in DevIds : devices[d].st = "live"

\* C7: the options pointer Device::new passes to native open is non-null
\* exactly when it is given a Settings on which at least one append has
\* returned; a new Settings and an absent one give a null pointer.
C7_OptionsPointer ==
    /\ \A s \in SetIds :
          settings[s].st = "live" =>
              (as_ao_option(settings[s]) # Null <=> settings[s].appends > 0)
    /\ op.name = "Settings::new" => settings[op.self].options = Null
    /\ op.name = "Device::new" =>
          /\ calls[1].fn = "ao_open_live"
          /\ IF op.arg = 0
             THEN calls[1].ptr = Null
             ELSE calls[1].ptr # Null <=> settings[op.arg].appends > 0
C7_Witness ==
    /\ op.name = "Device::new" /\ op.arg # 0
    /\ settings[op.arg].appends = 2
    /\ calls[1].ptr # Null

\* C9 as stated: the descriptor's bits, rate and channels are the same
\* numbers as the Format's; byte_format is 1, 2, 4 for Little, Big, Native;
\* the channel matrix is null; the default Format is 16, 44100, 2, Little,
\* no label.
SameNumber(v, x) == ~x.b31 /\ v = x.low
\* v is the two's-complement reading of the 32 bits of x
SameBits(v, x) ==
    IF v >= 0 THEN ~x.b31 /\ v = x.low
    ELSE x.b31 /\ (v + I32Max) + 1 = x.low
C9_Rest(d) ==
    /\ (format.byte_format = "Little" => d.byte_format = 1)
    /\ (format.byte_format = "Big" => d.byte_format = 2)
    /\ (format.byte_format = "Native" => d.byte_format = 4)
    /\ d.matrix = Null
C9_Default ==
    op.name = "Format::new" =>
        /\ format.bits = U32(16) /\ format.rate = U32(44100)
        /\ format.channels = U32(2) /\ format.byte_format = "Little"
        /\ format.channel_format = None
C9_FieldsEqual ==
    /\ C9_Default
    /\ \A d \in ao_format :
          /\ SameNumber(d.bits, format.bits)
          /\ SameNumber(d.rate, format.rate)
          /\ SameNumber(d.channels, format.channels)
          /\ C9_Rest(d)

\* C9 as amended: bits, rate and channels are the Format's 32 bits read as
\* signed 32-bit integers: the same number below 2^31, that number minus
\* 2^32 from 2^31 on.
C9_FieldsReinterpreted ==
    /\ C9_Default
    /\ \A d \in ao_format :
          /\ SameBits(d.bits, format.bits)
          /\ SameBits(d.rate, format.rate)
          /\ SameBits(d.channels, format.channels)
          /\ C9_Rest(d)
C9_Witness ==
    /\ op.name = "Format::to_ao_format"
    /\ format.bits.b31 /\ ~format.rate.b31
    /\ format.byte_format = "Native"
    /\ format.channel_format # None
    /\ \E d \in ao_format : d.bits < 0 /\ d.rate = 44100

====
